---- MODULE Spec2Model ----
(***************************************************************************)
(* Model of the chat gateway worker (src/src/index.ts, final variant,      *)
(* lines 379-683): the KV-backed rate limiter, live model resolution, the  *)
(* two provider clients with their decommission retry, and the /v1/chat    *)
(* handler that sequences them.  Every await of the handler is one step.   *)
(***************************************************************************)
EXTENDS Integers, Sequences, FiniteSets, TLC

(***************************************************************************)
(* Bounds of the model.                                                    *)
(***************************************************************************)
MaxRequests == 2        \* requests per window in a run of Spec
MaxRateRequests == 62   \* requests per window in a run of SpecRate
MaxEpoch == 1           \* 10-minute windows the clock may reach
MaxCatalogLen == 2
MaxMessages == 3      \* longest live catalog an upstream returns

Procs == {"h1", "h2"}   \* handler invocations that may be in flight
MainProc == "h1"

Absent == "absent"      \* an omitted header or body field (undefined)
NoModel == ""           \* no model held

(***************************************************************************)
(* Config / priorities (index.ts 402-424) and the hardcoded defaults.      *)
(***************************************************************************)
GROQ_SPEED_PRIORITY ==
    << "llama-3.1-8b-instant", "llama-3.2-11b-vision",
       "llama-3.2-3b-instruct", "llama-3.3-70b-versatile" >>
GROQ_QUALITY_PRIORITY ==
    << "llama-3.3-70b-versatile", "llama-3.1-70b-versatile",
       "llama-3.1-8b-instant" >>
GEMINI_SPEED_PRIORITY ==
    << "gemini-2.5-flash-lite", "gemini-2.5-flash",
       "gemini-2.0-flash", "gemini-2.5-pro" >>
GEMINI_QUALITY_PRIORITY ==
    << "gemini-2.5-pro", "gemini-2.0-pro", "gemini-2.5-flash" >>
GroqDefaultModel == "llama-3.1-8b-instant"
GeminiDefaultModel == "gemini-2.5-flash"

RATE_LIMIT == 60        \* 60 req / 10 min

(***************************************************************************)
(* KV values.  A stored value is the decimal string of a number n >= 0,    *)
(* written n; Null is a missing key; NaN is JavaScript's NaN and the       *)
(* string "NaN" that String(NaN) stores.                                   *)
(***************************************************************************)
Null == 0 - 1
NaN == 0 - 2
Garbage == 0 - 3        \* a stored string that is no number, such as "abc"

ParseInt(v) == IF v >= 0 THEN v ELSE NaN
NullishOrZero(v) == IF v = Null THEN 0 ELSE v
PlusOne(n) == IF n = NaN THEN NaN ELSE n + 1
LessEq(n, m) == n # NaN /\ n <= m

\* rateLimit, index.ts 430: the bucket key from the client id and the window
Bucket(id, epoch) ==
    [id |-> IF id = "" THEN "anon" ELSE id, epoch |-> epoch]

\* rateLimit, index.ts 431: the post-increment count from the value read
RateCurrent(v) == PlusOne(ParseInt(NullishOrZero(v)))

\* rateLimit, index.ts 433
RateAllowedOffByOne(current) == LessEq(current, RATE_LIMIT + 1)
RateAllowed(current) == LessEq(current, RATE_LIMIT)

\* handler, index.ts 639: the X-Client-Id header, defaulted
ClientIdOf(header) == IF header = Absent THEN "anon" ELSE header

(***************************************************************************)
(* Strings that the code inspects are sequences of one-character strings.  *)
(***************************************************************************)
IsSpace(ch) == ch \in {" ", "\n", "\t"}

RECURSIVE TrimStart(_)
TrimStart(s) ==
    IF s = << >> THEN << >>
    ELSE IF IsSpace(Head(s)) THEN TrimStart(Tail(s)) ELSE s

RECURSIVE TrimEnd(_)
TrimEnd(s) ==
    IF s = << >> THEN << >>
    ELSE IF IsSpace(s[Len(s)]) THEN TrimEnd(SubSeq(s, 1, Len(s) - 1)) ELSE s

\* String.prototype.trim
Trim(s) == TrimEnd(TrimStart(s))

\* Array.prototype.join(sep) over strings
RECURSIVE Join(_, _)
Join(parts, sep) ==
    IF parts = << >> THEN << >>
    ELSE IF Len(parts) = 1 THEN parts[1]
    ELSE parts[1] \o sep \o Join(Tail(parts), sep)

\* Array.prototype.includes
Includes(seq, x) == \E i \in 1..Len(seq) : seq[i] = x

(***************************************************************************)
(* isDecommissionedHttp (index.ts 440-444).  An error body is a sequence   *)
(* of words; the pattern /model.*(decommissioned|not found)/i asks for the *)
(* word model followed, later, by decommissioned or not found, any case.   *)
(***************************************************************************)
Lower(w) ==
    CASE w = "Model" -> "model"
      [] w = "MODEL" -> "model"
      [] w = "Decommissioned" -> "decommissioned"
      [] w = "Not Found" -> "not found"
      [] OTHER -> w

DecommissionPattern(body) ==
    \E i \in 1..Len(body) : \E j \in 1..Len(body) :
        /\ i < j
        /\ Lower(body[i]) = "model"
        /\ Lower(body[j]) \in {"decommissioned", "not found"}

isDecommissionedHttpAny400(status, body) ==
    \/ status = 404
    \/ status = 400
isDecommissionedHttp(status, body) ==
    \/ status = 404
    \/ status = 400 /\ DecommissionPattern(body)

IsOk(status) == status \in 200..299

(***************************************************************************)
(* Live model discovery (index.ts 476-497).  A list reply is what the      *)
(* fetch of the models endpoint produced; the operators give the ids the   *)
(* function returns once the fetch has resolved.                           *)
(***************************************************************************)
RECURSIVE StringIds(_)
StringIds(data) ==
    IF data = << >> THEN << >>
    ELSE IF Head(data).isString
         THEN << Head(data).name >> \o StringIds(Tail(data))
         ELSE StringIds(Tail(data))

\* s.replace(/^models\//, '') on a name held as its path segments
StripModelsPrefix(name) ==
    IF Len(name) > 1 /\ name[1] = "models" THEN Tail(name) ELSE name

listGroqModels(reply) ==
    IF ~IsOk(reply.status) THEN << >>
    ELSE IF ~reply.parsable \/ ~reply.isArray THEN << >>
    ELSE StringIds(reply.data)

\* a name's path segments written back as one string
RECURSIVE PathString(_)
PathString(name) ==
    IF Len(name) = 1 THEN name[1]
    ELSE name[1] \o "/" \o PathString(Tail(name))

RECURSIVE MapStrip(_)
MapStrip(names) ==
    IF names = << >> THEN << >>
    ELSE << PathString(StripModelsPrefix(Head(names))) >> \o MapStrip(Tail(names))

listGeminiModels(reply) ==
    IF ~IsOk(reply.status) THEN << >>
    ELSE IF ~reply.parsable \/ ~reply.isArray THEN << >>
    ELSE MapStrip(StringIds(reply.data))

\* variant: the first catalog entry some priority entry names
pickFirstAvailableCatalogOrder(priority, available) ==
    LET I == { i \in DOMAIN available : Includes(priority, available[i]) }
    IN  IF I = {} THEN << >>
        ELSE << available[CHOOSE i \in I : \A j \in I : i <= j] >>

RECURSIVE pickFirstAvailable(_, _)
pickFirstAvailable(priority, available) ==
    IF priority = << >> THEN << >>
    ELSE IF Includes(available, Head(priority)) THEN << Head(priority) >>
    ELSE pickFirstAvailable(Tail(priority), available)

(***************************************************************************)
(* Model resolution (index.ts 505-517), given the ids the list call gave.  *)
(***************************************************************************)
Truthy(str) == str # Absent /\ str # ""

\* variant: the requested model is not looked up in the catalog
resolveGroqModelIgnoreRequested(available, requested, preset) ==
    LET priority == IF preset = "quality" THEN GROQ_QUALITY_PRIORITY
                    ELSE GROQ_SPEED_PRIORITY
        picked == pickFirstAvailable(priority, available)
    IN  IF picked # << >> THEN picked[1]
        ELSE IF available # << >> /\ Truthy(available[1]) THEN available[1]
        ELSE GroqDefaultModel

resolveGroqModel(available, requested, preset) ==
    IF Truthy(requested) /\ Includes(available, requested) THEN requested
    ELSE LET priority == IF preset = "quality" THEN GROQ_QUALITY_PRIORITY
                         ELSE GROQ_SPEED_PRIORITY
             picked == pickFirstAvailable(priority, available)
         IN  IF picked # << >> THEN picked[1]
             ELSE IF available # << >> /\ Truthy(available[1]) THEN available[1]
             ELSE GroqDefaultModel

resolveGeminiModel(available, requested, preset) ==
    IF Truthy(requested) /\ Includes(available, requested) THEN requested
    ELSE LET priority == IF preset = "quality" THEN GEMINI_QUALITY_PRIORITY
                         ELSE GEMINI_SPEED_PRIORITY
             picked == pickFirstAvailable(priority, available)
         IN  IF picked # << >> THEN picked[1]
             ELSE IF available # << >> /\ Truthy(available[1]) THEN available[1]
             ELSE GeminiDefaultModel

(***************************************************************************)
(* Response normalization (index.ts 563-569, 604-612).                     *)
(***************************************************************************)
\* json?.choices?.[0]?.message?.content passes when it is a non-empty string
GroqTextOk(content) == content.isString /\ content.s # << >>

RECURSIVE PartTexts(_)
PartTexts(parts) ==
    IF parts = << >> THEN << >>
    ELSE LET t == IF Head(parts).hasText THEN Head(parts).s ELSE << >>
         IN  IF t # << >> THEN << t >> \o PartTexts(Tail(parts))
             ELSE PartTexts(Tail(parts))

\* parts.map(p => p?.text ?? '').filter(Boolean).join('\n').trim(), or ''
GeminiText(payload) ==
    IF payload.isArray THEN Trim(Join(PartTexts(payload.parts), << "\n" >>))
    ELSE << >>

(***************************************************************************)
(* openAIToGeminiBody (index.ts 446-473): the `contents` it returns.  A    *)
(* message is [role, content]; a content is a string, a sequence of        *)
(* characters; a turn is [role, text] for { role, parts: [{ text }] }.     *)
(***************************************************************************)
Turn(role, text) == [role |-> role, text |-> text]

\* variant: the prefix is not cleared once a user turn has taken it
RECURSIVE GeminiContentsKeepPrefix(_, _, _)
GeminiContentsKeepPrefix(messages, systemPrefix, contents) ==
    IF messages = << >>
    THEN IF systemPrefix # << >>
         THEN Append(contents, Turn("user", systemPrefix))
         ELSE contents
    ELSE LET m == Head(messages)
         IN  IF ~Truthy(m.role) \/ m.content = << >>
             THEN GeminiContentsKeepPrefix(Tail(messages), systemPrefix, contents)
             ELSE IF m.role = "system"
             THEN GeminiContentsKeepPrefix(Tail(messages),
                      systemPrefix
                        \o (IF systemPrefix # << >> THEN << "\n" >> ELSE << >>)
                        \o m.content,
                      contents)
             ELSE LET role == IF m.role = "assistant" THEN "model" ELSE "user"
                      inject == systemPrefix # << >> /\ role = "user"
                      content == IF inject
                                 THEN systemPrefix \o << "\n", "\n" >> \o m.content
                                 ELSE m.content
                  IN  GeminiContentsKeepPrefix(Tail(messages), systemPrefix,
                          Append(contents, Turn(role, content)))

\* the loop of index.ts 451-465 over the messages left, and line 466
RECURSIVE GeminiContents(_, _, _)
GeminiContents(messages, systemPrefix, contents) ==
    IF messages = << >>
    THEN IF systemPrefix # << >>
         THEN Append(contents, Turn("user", systemPrefix))
         ELSE contents
    ELSE LET m == Head(messages)
         IN  IF ~Truthy(m.role) \/ m.content = << >>
             THEN GeminiContents(Tail(messages), systemPrefix, contents)
             ELSE IF m.role = "system"
             THEN GeminiContents(Tail(messages),
                      systemPrefix
                        \o (IF systemPrefix # << >> THEN << "\n" >> ELSE << >>)
                        \o m.content,
                      contents)
             ELSE LET role == IF m.role = "assistant" THEN "model" ELSE "user"
                      inject == systemPrefix # << >> /\ role = "user"
                      content == IF inject
                                 THEN systemPrefix \o << "\n", "\n" >> \o m.content
                                 ELSE m.content
                  IN  GeminiContents(Tail(messages),
                          IF inject THEN << >> ELSE systemPrefix,
                          Append(contents, Turn(role, content)))

openAIToGeminiBody(body) ==
    GeminiContents(IF body.isArray THEN body.messages ELSE << >>, << >>, << >>)

(***************************************************************************)
(* Errors and responses.                                                   *)
(***************************************************************************)
Err(msg, status, body) == [msg |-> msg, status |-> status, body |-> body]
NoErr == Err("", 0, << >>)
NoResp == [status |-> 0, tag |-> "", detail |-> NoErr, text |-> << >>]

\* body?.provider ?? 'auto' (index.ts 646)
ProviderOf(body) == IF body.provider = Absent THEN "auto" ELSE body.provider
\* body?.preset === 'quality' ? 'quality' : 'speed' (index.ts 647)
PresetOf(body) == IF body.preset = "quality" THEN "quality" ELSE "speed"

(***************************************************************************)
(* Inputs: what a request carries and what the collaborators answer.       *)
(***************************************************************************)
GroqIds == { "llama-3.1-8b-instant", "llama-3.3-70b-versatile",
             "llama-3.1-70b-versatile", "mixtral-8x7b" }
GeminiIds == { "gemini-2.5-flash", "gemini-2.5-pro", "gemini-exp" }

SeqsUpTo(S, n) == UNION { [1..k -> S] : k \in 0..n }

InvalidBody ==
    [valid |-> FALSE, provider |-> Absent, enable_fallback |-> Absent,
     preset |-> Absent, model |-> Absent]
DefaultBody == [InvalidBody EXCEPT !.valid = TRUE]

\* request bodies: every provider and enable_fallback choice without a model,
\* and an explicit model (one of a priority list, one of provider B) with each
\* provider choice
Body(pr, fb, model, preset) ==
    [valid |-> TRUE, provider |-> pr, enable_fallback |-> fb,
     preset |-> preset, model |-> model]
Bodies ==
    { InvalidBody } \cup
    { Body(pr, fb, Absent, Absent) :
        pr \in {Absent, "auto", "groq", "gemini"},
        fb \in {Absent, "true", "false"} } \cup
    { Body(pr, Absent, "llama-3.1-8b-instant", "speed") :
        pr \in {Absent, "groq", "gemini"} } \cup
    { Body(pr, Absent, "gemini-2.5-pro", "quality") :
        pr \in {Absent, "groq", "gemini"} }

NetErr(r) == [r EXCEPT !.kind = "neterr"]

ListReply(status, parsable, isArray, data) ==
    [kind |-> "http", status |-> status, parsable |-> parsable,
     isArray |-> isArray, data |-> data]
ListReplies(entries) ==
    { NetErr(ListReply(0, FALSE, FALSE, << >>)),
      ListReply(500, TRUE, FALSE, << >>),
      ListReply(200, FALSE, FALSE, << >>),
      ListReply(200, TRUE, FALSE, << >>) } \cup
    { ListReply(200, TRUE, TRUE, d) : d \in SeqsUpTo(entries, MaxCatalogLen) }

NonStringEntry(name) == [isString |-> FALSE, name |-> name]
GroqEntries ==
    { [isString |-> TRUE, name |-> id] : id \in GroqIds } \cup
    { NonStringEntry("") }
GeminiEntries ==
    { [isString |-> TRUE, name |-> << "models", id >>] : id \in GeminiIds } \cup
    { [isString |-> TRUE, name |-> << "gemini-2.5-pro" >>],
      NonStringEntry(<< "models" >>) }

GroqListReplies == ListReplies(GroqEntries)
GeminiListReplies == ListReplies(GeminiEntries)

ChatReply(status, body, parsable, payload) ==
    [kind |-> "http", status |-> status, body |-> body,
     parsable |-> parsable, payload |-> payload]

\* non-success answers: a status and the words of the body text
HttpErrors ==
    { << 404, << >> >>, << 400, << "Model", "x", "Decommissioned" >> >>,
      << 400, << "not found", "model" >> >>,
      << 500, << "model", "decommissioned" >> >> }

NoContent == [isString |-> FALSE, s |-> << >>]
Content(s) == [isString |-> TRUE, s |-> s]
GroqChatReplies ==
    { NetErr(ChatReply(0, << >>, FALSE, NoContent)) } \cup
    { ChatReply(e[1], e[2], FALSE, NoContent) : e \in HttpErrors } \cup
    { ChatReply(200, << >>, FALSE, NoContent) } \cup
    { ChatReply(200, << >>, TRUE, c) :
        c \in { NoContent, Content(<< >>), Content(<< " " >>),
                Content(<< "h", "i" >>) } }

NoParts == [isArray |-> FALSE, parts |-> << >>]
Parts(ps) == [isArray |-> TRUE, parts |-> ps]
Part(s) == [hasText |-> TRUE, s |-> s]
NoTextPart == [hasText |-> FALSE, s |-> << >>]
GeminiChatReplies ==
    { NetErr(ChatReply(0, << >>, FALSE, NoParts)) } \cup
    { ChatReply(e[1], e[2], FALSE, NoParts) : e \in HttpErrors } \cup
    { ChatReply(200, << >>, FALSE, NoParts) } \cup
    { ChatReply(200, << >>, TRUE, c) :
        c \in { NoParts, Parts(<< >>), Parts(<< Part(<< " " >>) >>),
                Parts(<< Part(<< "o", "k", " " >>) >>),
                Parts(<< Part(<< "a" >>), NoTextPart, Part(<< "b" >>) >>) } }

\* what one specification lets the environment do
AllInputs ==
    [headers |-> {Absent}, epochs |-> {0}, kv |-> {"ok", "fail"},
     bodies |-> Bodies,
     groqLists |-> GroqListReplies, groqChats |-> GroqChatReplies,
     geminiLists |-> GeminiListReplies, geminiChats |-> GeminiChatReplies,
     maxReq |-> MaxRequests]

(***************************************************************************)
(* State.                                                                  *)
(***************************************************************************)
VARIABLES
    env,      \* the bindings: which provider keys are configured
    now,      \* the window of the latest Date.now() reading
    store,    \* RATE_KV: bucket -> stored value, Null when the key is absent
    arrived,  \* per bucket, the rateLimit calls made on it so far
    admitted, \* per bucket, how many requests rateLimit has let through
    h,        \* per handler invocation, its position and locals
    probe     \* the last call of a function applied on its own, with its result

vars == << env, now, store, arrived, admitted, h, probe >>

NoProbe == [fn |-> "none"]

Epochs == 0..MaxEpoch
Buckets == [id : {"anon", "alice"}, epoch : Epochs]

Idle ==
    [pc |-> "idle", header |-> Absent, bucket |-> Bucket("anon", 0),
     ord |-> 0, current |-> 0, bodyRead |-> FALSE, body |-> InvalidBody,
     model |-> NoModel, e1 |-> NoErr, calls |-> << >>,
     groqRuns |-> 0, geminiRuns |-> 0,
     groqFirst |-> "none", geminiFirst |-> "none",
     groqOut |-> "none", geminiOut |-> "none",
     lastChat |-> NetErr(ChatReply(0, << >>, FALSE, NoContent)),
     resp |-> NoResp]

Init ==
    /\ env \in [GROQ_API_KEY : BOOLEAN, GEMINI_API_KEY : BOOLEAN]
    /\ now = 0
    /\ store = [b \in Buckets |-> Null]
    /\ arrived = [b \in Buckets |-> 0]
    /\ admitted = [b \in Buckets |-> 0]
    /\ h = [p \in Procs |-> Idle]
    /\ probe = NoProbe

(***************************************************************************)
(* The handler's synchronous stretches, as functions on its locals r.      *)
(***************************************************************************)
Log(r, to, ep) == [r EXCEPT !.calls = Append(@, [to |-> to, ep |-> ep])]

\* c.json(...): the response is sent and the invocation is over
Respond(r, status, tag, detail, text) ==
    [r EXCEPT !.pc = "done", !.model = NoModel,
              !.resp = [status |-> status, tag |-> tag, detail |-> detail,
                        text |-> text]]

\* callGemini rejected with e: the catch of index.ts 660 or 674
GeminiThrowAlways502(r0, e) ==
    Respond([r0 EXCEPT !.geminiOut = "failed"], 502, "gemini_failed", e, << >>)
GeminiThrowAlways500(r0, e) ==
    Respond([r0 EXCEPT !.geminiOut = "failed"], 500, "fallback_failed", e,
            << >>)
GeminiThrow(r0, e) ==
    LET r == [r0 EXCEPT !.geminiOut = "failed"]
    IN  IF ProviderOf(r.body) = "gemini"
        THEN Respond(r, 502, "gemini_failed", e, << >>)
        ELSE Respond(r, 500, "fallback_failed", e, << >>)

\* callGemini up to its first await (index.ts 572-575, 513)
EnterGemini(r0) ==
    LET r == [r0 EXCEPT !.geminiRuns = @ + 1, !.model = NoModel]
    IN  IF ~env.GEMINI_API_KEY
        THEN GeminiThrow(r, Err("gemini_key_missing", 0, << >>))
        ELSE [Log(r, "gemini", "models") EXCEPT !.pc = "gemini_list1"]

\* callGroq rejected with e: the catch of index.ts 652 or 669
GroqThrowNoDefault(r0, e) ==
    LET r == [r0 EXCEPT !.groqOut = "failed", !.model = NoModel]
    IN  IF ProviderOf(r.body) = "groq"
        THEN Respond(r, 502, "groq_failed", e, << >>)
        ELSE IF env.GEMINI_API_KEY /\ r.body.enable_fallback = "true"
             THEN EnterGemini([r EXCEPT !.e1 = e])
             ELSE Respond([r EXCEPT !.e1 = e], 502,
                          "groq_failed_no_fallback", e, << >>)
GroqThrowNoKeyCheck(r0, e) ==
    LET r == [r0 EXCEPT !.groqOut = "failed", !.model = NoModel]
    IN  IF ProviderOf(r.body) = "groq"
        THEN Respond(r, 502, "groq_failed", e, << >>)
        ELSE EnterGemini([r EXCEPT !.e1 = e])
GroqThrow(r0, e) ==
    LET r == [r0 EXCEPT !.groqOut = "failed", !.model = NoModel]
    IN  IF ProviderOf(r.body) = "groq"
        THEN Respond(r, 502, "groq_failed", e, << >>)
        ELSE IF env.GEMINI_API_KEY
             THEN EnterGemini([r EXCEPT !.e1 = e])
             ELSE Respond([r EXCEPT !.e1 = e], 502,
                          "groq_failed_no_fallback", e, << >>)

\* variant: callGroq goes to the catalog without looking at its key
EnterGroqNoKeyCheck(r0) ==
    LET r == [r0 EXCEPT !.groqRuns = @ + 1]
    IN  [Log(r, "groq", "models") EXCEPT !.pc = "groq_list1"]

\* callGroq up to its first await (index.ts 519-522, 506)
EnterGroq(r0) ==
    LET r == [r0 EXCEPT !.groqRuns = @ + 1]
    IN  IF ~env.GROQ_API_KEY
        THEN GroqThrow(r, Err("groq_key_missing", 0, << >>))
        ELSE [Log(r, "groq", "models") EXCEPT !.pc = "groq_list1"]

\* index.ts 646-667: the dispatch on the provider once the body is parsed
Dispatch(r) ==
    IF ProviderOf(r.body) = "gemini" THEN EnterGemini(r) ELSE EnterGroq(r)

\* variant: in auto mode provider B is asked as well after A has answered
GroqFinishThenGemini(r, reply) ==
    IF ~reply.parsable THEN GroqThrow(r, Err("groq_json", 0, << >>))
    ELSE IF ~GroqTextOk(reply.payload)
         THEN GroqThrow(r, Err("groq_empty", 0, << >>))
    ELSE IF ProviderOf(r.body) = "auto" /\ env.GEMINI_API_KEY
         THEN EnterGemini([r EXCEPT !.groqOut = "ok"])
    ELSE Respond([r EXCEPT !.groqOut = "ok"], 200, "", NoErr, reply.payload.s)

\* index.ts 563-569: the body of a success answer of provider A
GroqFinish(r, reply) ==
    IF ~reply.parsable THEN GroqThrow(r, Err("groq_json", 0, << >>))
    ELSE IF ~GroqTextOk(reply.payload)
         THEN GroqThrow(r, Err("groq_empty", 0, << >>))
    ELSE Respond([r EXCEPT !.groqOut = "ok"], 200, "", NoErr, reply.payload.s)

\* index.ts 604-612: the body of a success answer of provider B
GeminiFinish(r, reply) ==
    IF ~reply.parsable THEN GeminiThrow(r, Err("gemini_json", 0, << >>))
    ELSE IF GeminiText(reply.payload) = << >>
         THEN GeminiThrow(r, Err("gemini_empty", 0, << >>))
    ELSE Respond([r EXCEPT !.geminiOut = "ok"], 200, "", NoErr,
                 GeminiText(reply.payload))

\* how a completion attempt ended, read off the answer alone
ReplyClass(reply) ==
    IF reply.kind = "neterr" THEN "neterr"
    ELSE IF IsOk(reply.status) THEN "success_status"
    ELSE IF reply.status = 404 THEN "decommissioned_404"
    ELSE IF reply.status = 400 /\ DecommissionPattern(reply.body)
         THEN "decommissioned_400"
    ELSE "other_status"

(***************************************************************************)
(* Actions: one per await of the handler.                                  *)
(***************************************************************************)
Set(p, r) == h' = [h EXCEPT ![p] = r]

\* a window's keys are gone once the clock is two windows on (TTL 660 s)
Expire(f, e, nil) ==
    [b \in Buckets |-> IF b.epoch + 1 < e THEN nil ELSE f[b]]

\* index.ts 636-642, 430-431: the request arrives; rateLimit reads the clock,
\* names its bucket and asks the store for it
Start(p, inp) ==
    /\ h[p].pc \in {"idle", "done"}
    /\ \E header \in inp.headers, e \in {now, now + 1} \cap inp.epochs :
         LET b == Bucket(ClientIdOf(header), e)
         IN  /\ arrived[b] < inp.maxReq
             /\ now' = e
             /\ store' = Expire(store, e, Null)
             /\ arrived' = [Expire(arrived, e, 0) EXCEPT ![b] = @ + 1]
             /\ admitted' = Expire(admitted, e, 0)
             /\ Set(p, [Idle EXCEPT !.pc = "rl_get", !.header = header,
                                    !.bucket = b, !.ord = arrived'[b]])
    /\ UNCHANGED << env, probe >>

\* index.ts 431: RATE_KV.get resolves (or rejects: the outer catch, 680-682)
RateLimitGet(p, inp) ==
    /\ h[p].pc = "rl_get"
    /\ \E outcome \in inp.kv :
         IF outcome = "fail"
         THEN Set(p, Respond(h[p], 500, "server_error",
                             Err("kv_get", 0, << >>), << >>))
         ELSE Set(p, [h[p] EXCEPT !.pc = "rl_put",
                          !.current = RateCurrent(store[h[p].bucket])])
    /\ UNCHANGED << env, now, store, arrived, admitted, probe >>

\* variant: an allowed call is let through without its count being written
RateLimitPutDeferred(p, inp) ==
    /\ h[p].pc = "rl_put"
    /\ \E outcome \in inp.kv :
         IF outcome = "fail"
         THEN /\ Set(p, Respond(h[p], 500, "server_error",
                                Err("kv_put", 0, << >>), << >>))
              /\ UNCHANGED << store, admitted >>
         ELSE IF RateAllowed(h[p].current)
              THEN /\ Set(p, [h[p] EXCEPT !.pc = "body"])
                   /\ admitted' = [admitted EXCEPT ![h[p].bucket] = @ + 1]
                   /\ UNCHANGED store
              ELSE /\ store' = [store EXCEPT ![h[p].bucket] = h[p].current]
                   /\ Set(p, Respond(h[p], 429, "rate_limited", NoErr, << >>))
                   /\ UNCHANGED admitted
    /\ UNCHANGED << env, now, arrived, probe >>

\* variant: the put adds one to what the store holds when the put is made
RateLimitPutAtomic(p, inp) ==
    /\ h[p].pc = "rl_put"
    /\ \E outcome \in inp.kv :
         IF outcome = "fail"
         THEN /\ Set(p, Respond(h[p], 500, "server_error",
                                Err("kv_put", 0, << >>), << >>))
              /\ UNCHANGED << store, admitted >>
         ELSE LET fresh == RateCurrent(store[h[p].bucket])
              IN  /\ store' = [store EXCEPT ![h[p].bucket] = fresh]
                  /\ IF RateAllowed(fresh)
                     THEN /\ Set(p, [h[p] EXCEPT !.pc = "body"])
                          /\ admitted' = [admitted EXCEPT ![h[p].bucket] = @ + 1]
                     ELSE /\ Set(p, Respond(h[p], 429, "rate_limited", NoErr, << >>))
                          /\ UNCHANGED admitted
    /\ UNCHANGED << env, now, arrived, probe >>

\* index.ts 432-433, 643-645: RATE_KV.put resolves (or rejects); the gate
RateLimitPutNoGate(p, inp) ==
    /\ h[p].pc = "rl_put"
    /\ \E outcome \in inp.kv :
         IF outcome = "fail"
         THEN /\ Set(p, Respond(h[p], 500, "server_error",
                                Err("kv_put", 0, << >>), << >>))
              /\ UNCHANGED << store, admitted >>
         ELSE /\ store' = [store EXCEPT ![h[p].bucket] = h[p].current]
              /\ admitted' = [admitted EXCEPT ![h[p].bucket] = @ + 1]
              /\ Set(p, [h[p] EXCEPT !.pc = "body"])
    /\ UNCHANGED << env, now, arrived, probe >>
RateLimitPut(p, inp) ==
    /\ h[p].pc = "rl_put"
    /\ \E outcome \in inp.kv :
         IF outcome = "fail"
         THEN /\ Set(p, Respond(h[p], 500, "server_error",
                                Err("kv_put", 0, << >>), << >>))
              /\ UNCHANGED << store, admitted >>
         ELSE /\ store' = [store EXCEPT ![h[p].bucket] = h[p].current]
              /\ IF RateAllowed(h[p].current)
                 THEN /\ Set(p, [h[p] EXCEPT !.pc = "body"])
                      /\ admitted' = [admitted EXCEPT ![h[p].bucket] = @ + 1]
                 ELSE /\ Set(p, Respond(h[p], 429, "rate_limited", NoErr, << >>))
                      /\ UNCHANGED admitted
    /\ UNCHANGED << env, now, arrived, probe >>

\* variant: a rejecting c.req.json() is not caught, nothing is sent
ParseBodyUncaught(p, inp) ==
    /\ h[p].pc = "body"
    /\ \E body \in inp.bodies :
         LET r == [h[p] EXCEPT !.bodyRead = TRUE, !.body = body]
         IN  IF ~body.valid
             THEN Set(p, [r EXCEPT !.pc = "done"])
             ELSE Set(p, Dispatch(r))
    /\ UNCHANGED << env, now, store, arrived, admitted, probe >>

\* index.ts 645-667: c.req.json() resolves (or rejects), then the dispatch
ParseBody(p, inp) ==
    /\ h[p].pc = "body"
    /\ \E body \in inp.bodies :
         LET r == [h[p] EXCEPT !.bodyRead = TRUE, !.body = body]
         IN  IF ~body.valid
             THEN Set(p, Respond(r, 500, "server_error",
                                 Err("json_parse", 0, << >>), << >>))
             ELSE Set(p, Dispatch(r))
    /\ UNCHANGED << env, now, store, arrived, admitted, probe >>

\* index.ts 522-538: the first listGroqModels fetch resolves (or rejects);
\* the model is resolved and the first completion is sent
GroqResolveFirst(p, inp) ==
    /\ h[p].pc = "groq_list1"
    /\ \E reply \in inp.groqLists :
         IF reply.kind = "neterr"
         THEN Set(p, GroqThrow(h[p], Err("fetch_failed", 0, << >>)))
         ELSE Set(p, [Log(h[p], "groq", "chat") EXCEPT
                        !.pc = "groq_fetch1",
                        !.model = resolveGroqModel(listGroqModels(reply),
                                     h[p].body.model, PresetOf(h[p].body))])
    /\ UNCHANGED << env, now, store, arrived, admitted, probe >>

\* index.ts 531-569: the first completion resolves (or rejects)
GroqFetchFirst(p, inp) ==
    /\ h[p].pc = "groq_fetch1"
    /\ \E reply \in inp.groqChats :
         LET r == [h[p] EXCEPT !.groqFirst = ReplyClass(reply),
                               !.lastChat = reply]
         IN  IF reply.kind = "neterr"
             THEN Set(p, GroqThrow(r, Err("fetch_failed", 0, << >>)))
             ELSE IF IsOk(reply.status) THEN Set(p, GroqFinish(r, reply))
             ELSE IF isDecommissionedHttp(reply.status, reply.body)
                  THEN Set(p, [Log(r, "groq", "models") EXCEPT
                                 !.pc = "groq_list2"])
             ELSE Set(p, GroqThrow(r, Err("groq_http", reply.status,
                                          reply.body)))
    /\ UNCHANGED << env, now, store, arrived, admitted, probe >>

\* index.ts 544-553: the second listGroqModels fetch resolves (or rejects);
\* the model is resolved afresh and the retry is sent
GroqResolveRetry(p, inp) ==
    /\ h[p].pc = "groq_list2"
    /\ \E reply \in inp.groqLists :
         IF reply.kind = "neterr"
         THEN Set(p, GroqThrow(h[p], Err("fetch_failed", 0, << >>)))
         ELSE Set(p, [Log(h[p], "groq", "chat") EXCEPT
                        !.pc = "groq_fetch2",
                        !.model = resolveGroqModel(listGroqModels(reply),
                                     Absent, PresetOf(h[p].body))])
    /\ UNCHANGED << env, now, store, arrived, admitted, probe >>

\* index.ts 546-569: the retried completion resolves (or rejects)
GroqFetchRetry(p, inp) ==
    /\ h[p].pc = "groq_fetch2"
    /\ \E reply \in inp.groqChats :
         LET r == [h[p] EXCEPT !.lastChat = reply]
         IN  IF reply.kind = "neterr"
             THEN Set(p, GroqThrow(r, Err("fetch_failed", 0, << >>)))
             ELSE IF IsOk(reply.status) THEN Set(p, GroqFinish(r, reply))
             ELSE Set(p, GroqThrow(r, Err("groq_http", reply.status,
                                          reply.body)))
    /\ UNCHANGED << env, now, store, arrived, admitted, probe >>

\* index.ts 575-584: the first listGeminiModels fetch resolves (or rejects)
GeminiResolveFirst(p, inp) ==
    /\ h[p].pc = "gemini_list1"
    /\ \E reply \in inp.geminiLists :
         IF reply.kind = "neterr"
         THEN Set(p, GeminiThrow(h[p], Err("fetch_failed", 0, << >>)))
         ELSE Set(p, [Log(h[p], "gemini", "chat") EXCEPT
                        !.pc = "gemini_fetch1",
                        !.model = resolveGeminiModel(listGeminiModels(reply),
                                     h[p].body.model, PresetOf(h[p].body))])
    /\ UNCHANGED << env, now, store, arrived, admitted, probe >>

\* index.ts 580-612: the first completion resolves (or rejects)
GeminiFetchFirst(p, inp) ==
    /\ h[p].pc = "gemini_fetch1"
    /\ \E reply \in inp.geminiChats :
         LET r == [h[p] EXCEPT !.geminiFirst = ReplyClass(reply),
                               !.lastChat = reply]
         IN  IF reply.kind = "neterr"
             THEN Set(p, GeminiThrow(r, Err("fetch_failed", 0, << >>)))
             ELSE IF IsOk(reply.status) THEN Set(p, GeminiFinish(r, reply))
             ELSE IF isDecommissionedHttp(reply.status, reply.body)
                  THEN Set(p, [Log(r, "gemini", "models") EXCEPT
                                 !.pc = "gemini_list2"])
             ELSE Set(p, GeminiThrow(r, Err("gemini_http", reply.status,
                                            reply.body)))
    /\ UNCHANGED << env, now, store, arrived, admitted, probe >>

\* index.ts 589-594: the second listGeminiModels fetch resolves (or rejects)
GeminiResolveRetry(p, inp) ==
    /\ h[p].pc = "gemini_list2"
    /\ \E reply \in inp.geminiLists :
         IF reply.kind = "neterr"
         THEN Set(p, GeminiThrow(h[p], Err("fetch_failed", 0, << >>)))
         ELSE Set(p, [Log(h[p], "gemini", "chat") EXCEPT
                        !.pc = "gemini_fetch2",
                        !.model = resolveGeminiModel(listGeminiModels(reply),
                                     Absent, PresetOf(h[p].body))])
    /\ UNCHANGED << env, now, store, arrived, admitted, probe >>

\* index.ts 590-612: the retried completion resolves (or rejects)
GeminiFetchRetry(p, inp) ==
    /\ h[p].pc = "gemini_fetch2"
    /\ \E reply \in inp.geminiChats :
         LET r == [h[p] EXCEPT !.lastChat = reply]
         IN  IF reply.kind = "neterr"
             THEN Set(p, GeminiThrow(r, Err("fetch_failed", 0, << >>)))
             ELSE IF IsOk(reply.status) THEN Set(p, GeminiFinish(r, reply))
             ELSE Set(p, GeminiThrow(r, Err("gemini_http", reply.status,
                                            reply.body)))
    /\ UNCHANGED << env, now, store, arrived, admitted, probe >>

(***************************************************************************)
(* Specifications.  In Spec requests are handled one after another, with   *)
(* every input the environment can give.                                   *)
(***************************************************************************)
Step(p, inp) ==
    \/ Start(p, inp)
    \/ RateLimitGet(p, inp)
    \/ RateLimitPut(p, inp)
    \/ ParseBody(p, inp)
    \/ GroqResolveFirst(p, inp)
    \/ GroqFetchFirst(p, inp)
    \/ GroqResolveRetry(p, inp)
    \/ GroqFetchRetry(p, inp)
    \/ GeminiResolveFirst(p, inp)
    \/ GeminiFetchFirst(p, inp)
    \/ GeminiResolveRetry(p, inp)
    \/ GeminiFetchRetry(p, inp)

Next == Step(MainProc, AllInputs)

Spec == Init /\ [][Next]_vars

(***************************************************************************)
(* SpecRate: one client (its header omitted or empty) sends up to          *)
(* MaxRateRequests requests per window one after another, in the current   *)
(* window or the next, the store never fails, both keys are configured,    *)
(* and the upstreams answer from a small set.                              *)
(***************************************************************************)
RateInputs ==
    [headers |-> {Absent, ""}, epochs |-> Epochs, kv |-> {"ok"},
     bodies |-> {InvalidBody, DefaultBody},
     groqLists |-> {ListReply(200, TRUE, TRUE, << >>)},
     groqChats |-> {ChatReply(404, << >>, FALSE, NoContent),
                    ChatReply(200, << >>, TRUE, Content(<< "h", "i" >>))},
     geminiLists |-> {ListReply(200, TRUE, TRUE, << >>)},
     geminiChats |-> {ChatReply(404, << >>, FALSE, NoParts),
                      ChatReply(200, << >>, TRUE,
                                Parts(<< Part(<< "o", "k", " " >>) >>))},
     maxReq |-> MaxRateRequests]

InitRate == Init /\ env.GROQ_API_KEY /\ env.GEMINI_API_KEY

NextRate == Step(MainProc, RateInputs)

SpecRate == InitRate /\ [][NextRate]_vars

(***************************************************************************)
(* Vocabulary of the properties.                                           *)
(***************************************************************************)
Count(r, to, ep) ==
    Cardinality({ i \in 1..Len(r.calls) :
                    r.calls[i].to = to /\ r.calls[i].ep = ep })
Contacted(r, to) == \E i \in 1..Len(r.calls) : r.calls[i].to = to
LastCall(r) == r.calls[Len(r.calls)]

\* the request was admitted, its body parsed, and it selects `provider`
Selects(r, provider) ==
    r.bodyRead /\ r.body.valid /\ ProviderOf(r.body) = provider

\* the answer to the last completion attempt is a usable answer of `to`
Succeeded(r, to) ==
    /\ r.pc = "done" /\ r.calls # << >>
    /\ LastCall(r) = [to |-> to, ep |-> "chat"]
    /\ r.lastChat.kind = "http" /\ IsOk(r.lastChat.status)
    /\ r.lastChat.parsable
    /\ IF to = "groq"
       THEN r.lastChat.payload.isString /\ r.lastChat.payload.s # << >>
       ELSE /\ r.lastChat.payload.isArray
            /\ \E i \in 1..Len(r.lastChat.payload.parts) :
                 LET part == r.lastChat.payload.parts[i]
                 IN  part.hasText /\ \E k \in 1..Len(part.s) : ~IsSpace(part.s[k])

\* the error a provider client ends with, read off what the upstream did
FailureOf(r, to) ==
    IF ~Contacted(r, to) THEN Err(to \o "_key_missing", 0, << >>)
    ELSE IF LastCall(r).ep = "models" \/ r.lastChat.kind = "neterr"
         THEN Err("fetch_failed", 0, << >>)
    ELSE IF ~IsOk(r.lastChat.status)
         THEN Err(to \o "_http", r.lastChat.status, r.lastChat.body)
    ELSE IF ~r.lastChat.parsable THEN Err(to \o "_json", 0, << >>)
    ELSE Err(to \o "_empty", 0, << >>)

\* every call to provider A precedes every call to provider B
GroqBeforeGemini(r) ==
    \A i \in 1..Len(r.calls) : \A j \in 1..Len(r.calls) :
        r.calls[i].to = "gemini" /\ r.calls[j].to = "groq" => j < i

(***************************************************************************)
(* C1.  provider=auto or omitted, request admitted, the provider A client  *)
(* failed (for whatever reason), enable_fallback omitted or true, provider *)
(* B's key configured: the provider B client is run, after A, and contacts *)
(* B; and if B then answers usably the response is 200 with B's joined and *)
(* trimmed text.                                                           *)
(***************************************************************************)
C1_FallbackToGemini ==
    \A p \in Procs :
        LET r == h[p]
        IN  ( /\ Selects(r, "auto") /\ r.groqOut = "failed"
              /\ r.body.enable_fallback \in {Absent, "true"}
              /\ env.GEMINI_API_KEY )
            => /\ r.geminiRuns = 1 /\ Contacted(r, "gemini")
               /\ GroqBeforeGemini(r)
               /\ Succeeded(r, "gemini")
                    => /\ r.resp.status = 200 /\ r.resp.tag = ""
                       /\ r.resp.text = GeminiText(r.lastChat.payload)

\* provider A failed on a transport error, B answered, fallback flag omitted
C1_Witness ==
    \E p \in Procs :
        /\ Selects(h[p], "auto") /\ h[p].body.enable_fallback = Absent
        /\ h[p].e1.msg = "groq_http" /\ h[p].e1.status = 500
        /\ Succeeded(h[p], "gemini") /\ h[p].resp.status = 200
        /\ h[p].resp.text = << "a", "\n", "b" >>

(***************************************************************************)
(* C2.  provider=auto, enable_fallback=false, the provider A client        *)
(* failed: provider B is never contacted and the response is 502.          *)
(***************************************************************************)
C2_NoFallbackWhenDisabled ==
    \A p \in Procs :
        LET r == h[p]
        IN  ( /\ Selects(r, "auto") /\ r.groqOut = "failed"
              /\ r.body.enable_fallback = "false" )
            => /\ ~Contacted(r, "gemini") /\ r.geminiRuns = 0
               /\ r.pc = "done" /\ r.resp.status = 502

(***************************************************************************)
(* C3.  provider=auto, the provider A client failed, provider B's key is   *)
(* absent: no call to provider B, and the response is 502 tagged           *)
(* groq_failed_no_fallback with provider A's error as its detail.          *)
(***************************************************************************)
C3_NoFallbackWithoutKey ==
    \A p \in Procs :
        LET r == h[p]
        IN  ( /\ Selects(r, "auto") /\ r.groqOut = "failed"
              /\ ~env.GEMINI_API_KEY )
            => /\ ~Contacted(r, "gemini") /\ r.geminiRuns = 0
               /\ r.pc = "done" /\ r.resp.status = 502
               /\ r.resp.tag = "groq_failed_no_fallback"
               /\ r.resp.detail = FailureOf(r, "groq")

C3_Witness ==
    \E p \in Procs :
        /\ Selects(h[p], "auto") /\ h[p].groqOut = "failed"
        /\ ~env.GEMINI_API_KEY /\ env.GROQ_API_KEY
        /\ h[p].resp.tag = "groq_failed_no_fallback"
        /\ h[p].resp.detail = Err("groq_http", 500, << "model", "decommissioned" >>)

(***************************************************************************)
(* C4.  provider=auto, the provider A client failed, the provider B client *)
(* was run and did not answer usably: the response is 500 tagged           *)
(* fallback_failed (with B's error as detail), never 502 or 200.           *)
(***************************************************************************)
C4_BothFailed ==
    \A p \in Procs :
        LET r == h[p]
        IN  ( /\ Selects(r, "auto") /\ r.groqOut = "failed"
              /\ r.geminiRuns = 1 /\ r.pc = "done"
              /\ ~Succeeded(r, "gemini") )
            => /\ r.resp.status = 500
               /\ r.resp.tag = "fallback_failed"
               /\ r.resp.detail = FailureOf(r, "gemini")

C4_Witness ==
    \E p \in Procs :
        /\ Selects(h[p], "auto") /\ h[p].groqOut = "failed"
        /\ h[p].geminiRuns = 1 /\ h[p].pc = "done"
        /\ h[p].resp.status = 500 /\ h[p].resp.detail.msg = "gemini_empty"

(***************************************************************************)
(* C5.  An explicit provider: its client is run exactly once and the other *)
(* provider is never run or contacted; the response is 200 on a usable     *)
(* answer and otherwise 502 tagged with the named provider.                *)
(***************************************************************************)
C5For(r, named, other) ==
    Selects(r, named)
    => /\ r[named \o "Runs"] = 1 /\ r[other \o "Runs"] = 0
       /\ ~Contacted(r, other)
       /\ r.pc = "done"
            => IF Succeeded(r, named) THEN r.resp.status = 200
               ELSE /\ r.resp.status = 502
                    /\ r.resp.tag = named \o "_failed"
                    /\ r.resp.detail = FailureOf(r, named)

C5_ExplicitProvider ==
    \A p \in Procs :
        /\ C5For(h[p], "groq", "gemini")
        /\ C5For(h[p], "gemini", "groq")

\* explicit provider B failing after its retry while A's key is configured
C5_Witness ==
    \E p \in Procs :
        /\ Selects(h[p], "gemini") /\ env.GROQ_API_KEY
        /\ h[p].pc = "done" /\ Count(h[p], "gemini", "chat") = 2
        /\ h[p].resp.status = 502 /\ h[p].resp.tag = "gemini_failed"

(***************************************************************************)
(* C6.  A first completion answered with a decommissioned status (404, or  *)
(* 400 with the pattern) is followed by one more resolution and exactly    *)
(* one more completion attempt of the same provider, after which the call  *)
(* is over; no provider gets more than two completion attempts.            *)
(***************************************************************************)
Decommissioned(class) == class \in {"decommissioned_404", "decommissioned_400"}

C6For(r, to) ==
    /\ Count(r, to, "chat") <= 2
    /\ ( Decommissioned(r[to \o "First"]) /\ r[to \o "Out"] # "none" )
       => Count(r, to, "chat") = 2 /\ Count(r, to, "models") = 2

C6_RetryExactlyOnce ==
    \A p \in Procs : C6For(h[p], "groq") /\ C6For(h[p], "gemini")

(***************************************************************************)
(* C7.  Explicit provider and explicit model, first completion answered    *)
(* 404: the retry (at most one) is sent with a model id other than the     *)
(* request's explicit id, and a usable answer to it gives a 200 without an *)
(* error.                                                                  *)
(***************************************************************************)
C7For(r, to) ==
    ( /\ Selects(r, to) /\ r.body.model # Absent
      /\ r[to \o "First"] = "decommissioned_404" )
    => /\ Count(r, to, "chat") <= 2
       /\ r.pc = to \o "_fetch2" => r.model # r.body.model
       /\ Succeeded(r, to) => r.resp.status = 200 /\ r.resp.tag = ""

C7_RetryWithDifferentModel ==
    \A p \in Procs : C7For(h[p], "groq") /\ C7For(h[p], "gemini")

(***************************************************************************)
(* C8.  A first completion that ends in a non-success status other than    *)
(* the decommissioned ones, or in a success status whose body is           *)
(* unparsable or empty, ends the client call: one completion attempt and   *)
(* one resolution of that provider, no more.                               *)
(***************************************************************************)
C8For(r, to) ==
    ( \/ r[to \o "First"] = "other_status"
      \/ r[to \o "First"] = "success_status" /\ r[to \o "Out"] = "failed" )
    => /\ Count(r, to, "chat") = 1 /\ Count(r, to, "models") = 1
       /\ r[to \o "Out"] = "failed"

C8_NoRetryOtherwise ==
    \A p \in Procs : C8For(h[p], "groq") /\ C8For(h[p], "gemini")

\* a 400 whose body does not match the pattern, and an empty answer
C8_Witness ==
    \E p \in Procs :
        /\ h[p].pc = "done" /\ Selects(h[p], "auto")
        /\ h[p].e1 = Err("groq_http", 400, << "not found", "model" >>)
        /\ h[p].geminiFirst = "success_status"
        /\ h[p].resp.detail.msg = "gemini_empty"

(***************************************************************************)
(* C9.  Requests of one client handled one after another, store never      *)
(* failing (SpecRate): the n-th request to arrive in a window is admitted  *)
(* exactly when n <= 60, and once rateLimit has returned the bucket holds  *)
(* the count of arrivals; the count starts afresh in the next window.      *)
(***************************************************************************)
Decided(r) == r.pc \notin {"idle", "rl_get", "rl_put"}
Admitted(r) == Decided(r) /\ ~(r.pc = "done" /\ r.resp.status = 429)

C9_SixtyPerWindow ==
    \A p \in Procs :
        LET r == h[p]
        IN  Decided(r)
            => /\ Admitted(r) <=> r.ord <= RATE_LIMIT
               /\ store[r.bucket] = r.ord

\* 61 requests were counted in window 0 and the first of window 1 is admitted
C9_Witness ==
    \E p \in Procs :
        /\ store[Bucket("anon", 0)] = RATE_LIMIT + 1
        /\ h[p].bucket = Bucket("anon", 1) /\ h[p].ord = 1
        /\ h[p].pc = "body"

(***************************************************************************)
(* C10.  When rateLimit returns false the response is 429 rate_limited,    *)
(* the body has not been read and neither provider client has been run or  *)
(* contacted.                                                              *)
(***************************************************************************)
C10_RejectShortCircuits ==
    \A p \in Procs :
        LET r == h[p]
        IN  ( Decided(r) /\ ~LessEq(r.current, RATE_LIMIT) )
            => /\ r.pc = "done"
               /\ r.resp = [status |-> 429, tag |-> "rate_limited",
                            detail |-> NoErr, text |-> << >>]
               /\ ~r.bodyRead /\ r.calls = << >>
               /\ r.groqRuns = 0 /\ r.geminiRuns = 0

\* the 61st request of a window is turned away
C10_Witness ==
    \E p \in Procs :
        /\ h[p].pc = "done" /\ h[p].current = RATE_LIMIT + 1
        /\ h[p].resp.status = 429

(***************************************************************************)
(* SpecKv: the durable store already holds values when the worker starts:  *)
(* a count at the limit left by earlier traffic, or a string that is no    *)
(* number written by another user of the namespace.  Two clients, requests *)
(* one after another, the store never fails.                               *)
(***************************************************************************)
KvInputs ==
    [RateInputs EXCEPT !.headers = {Absent, "alice"}, !.maxReq = MaxRequests]

InitKv ==
    /\ env = [GROQ_API_KEY |-> TRUE, GEMINI_API_KEY |-> TRUE]
    /\ now = 0
    /\ store \in [Buckets -> {Null, Garbage, RATE_LIMIT}]
    /\ arrived = [b \in Buckets |-> 0]
    /\ admitted = [b \in Buckets |-> 0]
    /\ h = [p \in Procs |-> Idle]
    /\ probe = NoProbe

NextKv == Step(MainProc, KvInputs)

SpecKv == InitKv /\ [][NextKv]_vars

(***************************************************************************)
(* C11.  Every rateLimit call whose put goes through writes its bucket     *)
(* back as the value it found plus one, a missing or unparseable value     *)
(* counting as 0; a rejected call leaves the stored counter strictly       *)
(* larger; no other bucket changes.                                        *)
(***************************************************************************)
CountedAsZero(v) == IF v >= 0 THEN v ELSE 0

RateLimitReturned(p) == h[p].pc = "rl_put" /\ h'[p].pc # "rl_put"

C11_IncrementOwnBucket ==
    [][ \A p \in Procs :
          RateLimitReturned(p)
          => LET b == h[p].bucket
             IN  /\ store' = [store EXCEPT ![b] = CountedAsZero(store[b]) + 1]
                 /\ h'[p].resp.status = 429 => store'[b] > store[b] ]_vars

(***************************************************************************)
(* C12.  Model resolution never fails: whatever the list call does         *)
(* (answer, non-success status, unparsable body, network failure), the     *)
(* resolution returns a model id and the client goes on to send its        *)
(* completion with it.                                                     *)
(***************************************************************************)
Resolving(r) ==
    r.pc \in {"groq_list1", "groq_list2", "gemini_list1", "gemini_list2"}

AfterResolution(pc) ==
    CASE pc = "groq_list1" -> "groq_fetch1"
      [] pc = "groq_list2" -> "groq_fetch2"
      [] pc = "gemini_list1" -> "gemini_fetch1"
      [] pc = "gemini_list2" -> "gemini_fetch2"
      [] OTHER -> pc

C12_ResolutionNeverFails ==
    [][ \A p \in Procs :
          ( Resolving(h[p]) /\ h'[p] # h[p] )
          => /\ h'[p].pc = AfterResolution(h[p].pc)
             /\ h'[p].model # NoModel ]_vars

(***************************************************************************)
(* SpecResolve: model resolution applied on its own, to every list answer  *)
(* of either provider, every requested model and both presets.             *)
(***************************************************************************)
RequestedModels == {Absent} \cup GroqIds \cup GeminiIds
Presets == {"speed", "quality"}

ResolveGroq ==
    /\ probe = NoProbe
    /\ \E reply \in { l \in GroqListReplies : l.kind = "http" },
          requested \in RequestedModels, preset \in Presets :
         probe' = [fn |-> "resolveGroqModel",
                   available |-> listGroqModels(reply),
                   requested |-> requested, preset |-> preset,
                   result |-> resolveGroqModel(listGroqModels(reply),
                                               requested, preset)]
    /\ UNCHANGED << env, now, store, arrived, admitted, h >>

ResolveGemini ==
    /\ probe = NoProbe
    /\ \E reply \in { l \in GeminiListReplies : l.kind = "http" },
          requested \in RequestedModels, preset \in Presets :
         probe' = [fn |-> "resolveGeminiModel",
                   available |-> listGeminiModels(reply),
                   requested |-> requested, preset |-> preset,
                   result |-> resolveGeminiModel(listGeminiModels(reply),
                                                 requested, preset)]
    /\ UNCHANGED << env, now, store, arrived, admitted, h >>

NextResolve == ResolveGroq \/ ResolveGemini

SpecResolve == Init /\ [][NextResolve]_vars

Resolved == probe.fn \in {"resolveGroqModel", "resolveGeminiModel"}

(***************************************************************************)
(* C13.  A requested model that the live catalog lists is returned as it   *)
(* is, whatever the preset and whether or not a priority list names it.    *)
(***************************************************************************)
C13_RequestedInCatalogWins ==
    ( Resolved /\ probe.requested # Absent
      /\ Includes(probe.available, probe.requested) )
    => probe.result = probe.requested

\* a requested id outside every priority list, behind a priority id
C13_Witness ==
    /\ probe.fn = "resolveGroqModel" /\ probe.preset = "quality"
    /\ probe.available = << "llama-3.3-70b-versatile", "mixtral-8x7b" >>
    /\ probe.requested = "mixtral-8x7b" /\ probe.result = "mixtral-8x7b"

(***************************************************************************)
(* C14.  Without a usable requested model the result is the earliest entry *)
(* of the preset's priority list that the catalog lists; with none listed, *)
(* the first catalog entry; with an empty catalog, the provider's default. *)
(* A non-empty catalog always contains the result.                         *)
(***************************************************************************)
PriorityOf(fn, preset) ==
    CASE fn = "resolveGroqModel" /\ preset = "quality" -> GROQ_QUALITY_PRIORITY
      [] fn = "resolveGroqModel" /\ preset # "quality" -> GROQ_SPEED_PRIORITY
      [] fn = "resolveGeminiModel" /\ preset = "quality" -> GEMINI_QUALITY_PRIORITY
      [] OTHER -> GEMINI_SPEED_PRIORITY

DefaultOf(fn) ==
    IF fn = "resolveGroqModel" THEN GroqDefaultModel ELSE GeminiDefaultModel

EarliestListed(priority, available) ==
    LET I == { i \in DOMAIN priority : Includes(available, priority[i]) }
    IN  IF I = {} THEN NoModel
        ELSE priority[CHOOSE i \in I : \A j \in I : i <= j]

C15_SuccessTextNotBlank ==
    \A p \in Procs : h[p].resp.status = 200 => Trim(h[p].resp.text) # << >>

(***************************************************************************)
(* SpecFair: every pending await of the handler is eventually settled and  *)
(* its continuation run (each store, body and upstream promise resolves or *)
(* rejects).                                                               *)
(***************************************************************************)
InFlight(r) == r.pc \notin {"idle", "done"}

Continue == Next /\ InFlight(h[MainProc])

SpecFair == Spec /\ WF_vars(Continue)

(***************************************************************************)
(* C16.  Every request ends with exactly one structured response: the     *)
(* response is written once, by the step that ends the invocation; its     *)
(* status is 200, 429, 502 or 500 and it names an error unless it is 200;  *)
(* and every request in flight does end, store failures included.          *)
(***************************************************************************)
Structured(resp) ==
    /\ resp.status \in {200, 429, 502, 500}
    /\ resp.status # 200 => resp.tag # ""
    /\ resp.status = 200 <=> resp.tag = ""

C16_OneStructuredResponse ==
    /\ [] ( \A p \in Procs :
              /\ h[p].pc = "done" => Structured(h[p].resp)
              /\ InFlight(h[p]) => h[p].resp = NoResp )
    /\ [][ \A p \in Procs :
              ( InFlight(h[p]) /\ h'[p].resp # NoResp ) => h'[p].pc = "done" ]_vars
    /\ \A p \in Procs : InFlight(h[p]) ~> h[p].pc = "done"

\* the store's put rejected and the request still got its 500 answer
C16_Witness ==
    /\ h[MainProc].pc = "done"
    /\ h[MainProc].resp.status = 500
    /\ h[MainProc].resp.tag = "server_error"
    /\ h[MainProc].resp.detail.msg = "kv_put"

(***************************************************************************)
(* C17.  One request makes at most four outbound calls, catalog fetches    *)
(* and completion attempts of both providers counted together.             *)
(***************************************************************************)
C17_AtMostFourCalls == \A p \in Procs : Len(h[p].calls) <= 4

(***************************************************************************)
(* C18.  A provider whose key is absent is never contacted, neither for    *)
(* its catalog nor for a completion: its client, when run, fails at once   *)
(* with groq_key_missing / gemini_key_missing.                             *)
(***************************************************************************)
GroqError(r) == IF ProviderOf(r.body) = "groq" THEN r.resp.detail ELSE r.e1

C18_MissingKeyNoOutboundCall ==
    \A p \in Procs :
        LET r == h[p]
        IN  /\ ~env.GROQ_API_KEY
               => /\ ~Contacted(r, "groq")
                  /\ r.groqRuns > 0
                     => /\ r.groqOut = "failed"
                        /\ GroqError(r) = Err("groq_key_missing", 0, << >>)
            /\ ~env.GEMINI_API_KEY
               => /\ ~Contacted(r, "gemini")
                  /\ r.geminiRuns > 0
                     => /\ r.geminiOut = "failed" /\ r.pc = "done"
                        /\ r.resp.detail = Err("gemini_key_missing", 0, << >>)

\* provider A's client was run without its key and the request went on to B
C18_Witness ==
    /\ ~env.GROQ_API_KEY /\ env.GEMINI_API_KEY
    /\ Selects(h[MainProc], "auto")
    /\ h[MainProc].groqRuns = 1 /\ h[MainProc].groqOut = "failed"
    /\ h[MainProc].e1.msg = "groq_key_missing"
    /\ h[MainProc].calls = << [to |-> "gemini", ep |-> "models"] >>

(***************************************************************************)
(* SpecTranslate: openAIToGeminiBody applied on its own to every message   *)
(* list of up to MaxMessages messages, and to a body without a list.       *)
(***************************************************************************)
Roles == {"system", "user", "assistant", Absent}
Contents == { << >>, << "S" >>, << "B" >>, << "U" >> }
Messages == [role : Roles, content : Contents]
ChatBodies ==
    { [isArray |-> TRUE, messages |-> ms] : ms \in SeqsUpTo(Messages, MaxMessages) }
    \cup { [isArray |-> FALSE, messages |-> << >>] }

Translate ==
    /\ probe = NoProbe
    /\ \E body \in ChatBodies :
         probe' = [fn |-> "openAIToGeminiBody", body |-> body,
                   result |-> openAIToGeminiBody(body)]
    /\ UNCHANGED << env, now, store, arrived, admitted, h >>

NextTranslate == Translate

SpecTranslate == Init /\ [][NextTranslate]_vars

(***************************************************************************)
(* C19.  The translation emits no system turn.  Each user turn carries, in *)
(* front of its own content and separated from it by a blank line, the     *)
(* system contents that arrived since the previous user turn, in arrival   *)
(* order and joined by newlines; system contents no user turn followed     *)
(* make one trailing user turn; so every content is emitted exactly once.  *)
(* [system S, user U] gives one user turn S, blank line, U; [system S]     *)
(* gives one user turn S; [system S, system B, user U] gives one user      *)
(* turn S, newline, B, blank line, U.                                      *)
(***************************************************************************)
Effective(m) == m.role # Absent /\ m.content # << >>

ContentsOf(ms) == [n \in 1..Len(ms) |-> ms[n].content]

IsSystem(m) == m.role = "system"

\* the system contents at positions a < j < b of the effective messages
SysBetween(eff, a, b) ==
    ContentsOf(SelectSeq(SubSeq(eff, a + 1, b - 1), IsSystem))

\* the last user message before position i, or 0
PrevUser(eff, i) ==
    LET U == { j \in 1..(i - 1) : j <= Len(eff) /\ eff[j].role = "user" }
    IN  IF U = {} THEN 0 ELSE CHOOSE j \in U : \A k \in U : k <= j

\* what the turn of the effective non-system message at position i must be
ExpectedTurn(eff, i) ==
    LET pre == SysBetween(eff, PrevUser(eff, i), i)
    IN  IF eff[i].role = "assistant" THEN Turn("model", eff[i].content)
        ELSE IF pre = << >> THEN Turn("user", eff[i].content)
        ELSE Turn("user", Join(pre, << "\n" >>) \o << "\n", "\n" >>
                          \o eff[i].content)

Occurrences(texts, c) ==
    LET all == Join(texts, << >>)
    IN  Cardinality({ n \in 1..Len(all) : all[n] = c })

System(c) == [role |-> "system", content |-> c]
User(c) == [role |-> "user", content |-> c]

C19_SystemPrefixInjectedOnce ==
    probe.fn = "openAIToGeminiBody"
    => LET eff == SelectSeq(probe.body.messages, Effective)
           out == probe.result
           N == { i \in 1..Len(eff) : eff[i].role # "system" }
           pending == SysBetween(eff, PrevUser(eff, Len(eff) + 1), Len(eff) + 1)
           Nth(k) == CHOOSE i \in N : Cardinality({ j \in N : j <= i }) = k
       IN  /\ \A k \in 1..Len(out) : out[k].role \in {"user", "model"}
           /\ Len(out) = Cardinality(N) + (IF pending = << >> THEN 0 ELSE 1)
           /\ \A k \in 1..Cardinality(N) : out[k] = ExpectedTurn(eff, Nth(k))
           /\ pending # << >>
              => out[Len(out)] = Turn("user", Join(pending, << "\n" >>))
           /\ \A c \in {"S", "B", "U"} :
                Occurrences([k \in 1..Len(out) |-> out[k].text], c)
                = Occurrences(ContentsOf(eff), c)
           /\ probe.body.messages = << System(<< "S" >>), User(<< "U" >>) >>
              => out = << Turn("user", << "S", "\n", "\n", "U" >>) >>
           /\ probe.body.messages = << System(<< "S" >>) >>
              => out = << Turn("user", << "S" >>) >>
           /\ probe.body.messages
                = << System(<< "S" >>), System(<< "B" >>), User(<< "U" >>) >>
              => out = << Turn("user", << "S", "\n", "B", "\n", "\n", "U" >>) >>

\* a prefix taken by the first user turn and not repeated in the second
C19_Witness ==
    /\ probe.fn = "openAIToGeminiBody"
    /\ probe.body.messages
         = << System(<< "S" >>), User(<< "U" >>), User(<< "B" >>) >>
    /\ probe.result = << Turn("user", << "S", "\n", "\n", "U" >>),
                         Turn("user", << "B" >>) >>

(***************************************************************************)
(* SpecConc: invocations of the handler for one client in one window, two  *)
(* at a time, their steps interleaved in every order.                      *)
(***************************************************************************)
ConcInputs ==
    [RateInputs EXCEPT !.headers = {Absent}, !.epochs = {0},
                       !.bodies = {DefaultBody},
                       !.groqChats = {ChatReply(404, << >>, FALSE, NoContent)},
                       !.geminiChats = {ChatReply(404, << >>, FALSE, NoParts)}]

\* the window is entered after ConcStart requests of the client were served
\* one after the other: the store and the counts are what SpecRate has then
ConcStart == RATE_LIMIT - 2
ConcBucket == Bucket("anon", 0)

InitConc ==
    /\ env = [GROQ_API_KEY |-> TRUE, GEMINI_API_KEY |-> TRUE]
    /\ now = 0
    /\ store = [b \in Buckets |-> IF b = ConcBucket THEN ConcStart ELSE Null]
    /\ arrived = [b \in Buckets |-> IF b = ConcBucket THEN ConcStart ELSE 0]
    /\ admitted = [b \in Buckets |-> IF b = ConcBucket THEN ConcStart ELSE 0]
    /\ h = [p \in Procs |-> Idle]
    /\ probe = NoProbe

NextConc == \E p \in Procs : Step(p, ConcInputs)

SpecConc == InitConc /\ [][NextConc]_vars

(***************************************************************************)
(* C20.  rateLimit's read and write are two steps: the put writes back the *)
(* value computed from the call's own earlier read, whatever other calls   *)
(* wrote in between, and the call is admitted on that value alone.  So     *)
(* overlapping calls of one client can be admitted more than 60 times in   *)
(* one window (C20_Witness).                                               *)
(***************************************************************************)
C20_StaleWriteBack ==
    [][ \A p \in Procs :
          RateLimitReturned(p)
          => LET b == h[p].bucket
             IN  /\ store'[b] = h[p].current
                 /\ admitted'[b] = admitted[b] + 1 <=> h[p].current <= RATE_LIMIT
                 /\ admitted'[b] = admitted[b] <=> h[p].current > RATE_LIMIT ]_vars

\* the 61st admission in one window
C20_Witness ==
    \E b \in Buckets : admitted[b] > RATE_LIMIT /\ arrived[b] = admitted[b]

\* SpecRate reaches the state SpecConc starts from
ConcStartReached ==
    /\ store[ConcBucket] = ConcStart /\ arrived[ConcBucket] = ConcStart
    /\ admitted[ConcBucket] = ConcStart /\ h[MainProc].pc = "done"
    /\ \A b \in Buckets \ {ConcBucket} : store[b] = Null /\ arrived[b] = 0

(***************************************************************************)
(* C21.  provider=auto or omitted: provider B is contacted only once the   *)
(* provider A client has failed; a usable answer of A ends the request at  *)
(* once with 200 and A's text, provider B neither run nor contacted; and   *)
(* no call to A follows a call to B.                                       *)
(***************************************************************************)
\* the last call sent was a completion of provider A and its answer is usable
GroqAnswered(r) ==
    /\ r.calls # << >> /\ LastCall(r) = [to |-> "groq", ep |-> "chat"]
    /\ r.lastChat.kind = "http" /\ IsOk(r.lastChat.status)
    /\ r.lastChat.parsable
    /\ r.lastChat.payload.isString /\ r.lastChat.payload.s # << >>

C21_GeminiOnlyAfterGroqFailed ==
    \A p \in Procs :
        LET r == h[p]
        IN  Selects(r, "auto")
            => /\ ( Contacted(r, "gemini") \/ r.geminiRuns > 0 )
                  => /\ r.groqOut = "failed" /\ r.groqRuns = 1
                     /\ ~GroqAnswered(r)
               /\ GroqAnswered(r)
                  => /\ r.pc = "done" /\ r.resp.status = 200
                     /\ r.resp.tag = "" /\ r.resp.text = r.lastChat.payload.s
                     /\ ~Contacted(r, "gemini") /\ r.geminiRuns = 0
               /\ GroqBeforeGemini(r)

\* provider A answered on its retry, provider B's key is set and B was not asked
C21_Witness ==
    /\ Selects(h[MainProc], "auto") /\ env.GEMINI_API_KEY
    /\ GroqAnswered(h[MainProc])
    /\ Count(h[MainProc], "groq", "chat") = 2
    /\ h[MainProc].resp.status = 200
    /\ h[MainProc].resp.text = << "h", "i" >>
    /\ ~Contacted(h[MainProc], "gemini")

(***************************************************************************)
(* C22.  An admitted request whose body is not valid JSON ends with 500    *)
(* server_error and neither provider run or contacted; its count was       *)
(* written to the client's bucket before the body was read, so the request *)
(* has used up one of the window's 60.                                     *)
(***************************************************************************)
C22_MalformedBodyStillCounted ==
    \A p \in Procs :
        LET r == h[p]
        IN  /\ r.pc = "body"
               => /\ ~r.bodyRead
                  /\ store[r.bucket] = r.current /\ r.current = r.ord
            /\ ( r.bodyRead /\ ~r.body.valid )
               => /\ r.pc = "done" /\ r.resp.status = 500
                  /\ r.resp.tag = "server_error"
                  /\ r.calls = << >> /\ r.groqRuns = 0 /\ r.geminiRuns = 0
                  /\ store[r.bucket] = r.current /\ r.current = r.ord
                  /\ admitted[r.bucket] = r.ord

\* the 60th request of a window was malformed and took the last place
C22_Witness ==
    \E p \in Procs :
        /\ h[p].bodyRead /\ ~h[p].body.valid
        /\ h[p].resp.status = 500 /\ h[p].resp.detail.msg = "json_parse"
        /\ h[p].ord = RATE_LIMIT /\ store[h[p].bucket] = RATE_LIMIT

====
